---- MODULE Spec2Model ----
(***************************************************************************)
(* The tool-calling turn of the AI assistant: processInput (main.go) and   *)
(* Manager.ExecuteTools (internal/tools/manager.go), over one session      *)
(* transcript.                                                             *)
(***************************************************************************)
EXTENDS Integers, Sequences, FiniteSets, TLC

VARIABLES
    messages,    \* currentSession.Messages
    request,     \* processInput's local `messages`: what the provider is sent
    pc,          \* where processInput is: "idle" between turns
    toolCalls,   \* processInput's local toolCalls (the provider's list)
    results,     \* ExecuteTools' local results
    idx,         \* position of ExecuteTools' range loop (1-based)
    retry,       \* the follow-up loop's variable
    outcome,     \* what the last turn returned: answer or error
    chatCalls,   \* aiClient.Chat calls made in the current/last turn
    initial,     \* how the turn's initial Chat call ended: "none", "ok", "err"
    followUps,   \* how each follow-up Chat call of the turn ended, in order
    execRounds,  \* ExecuteTools calls made in the current/last turn
    executed,    \* ids of the calls whose tool.Execute ran, in time order
    sleeps,      \* seconds of each time.Sleep of the current/last turn
    turnBase,    \* Len(messages) when the current/last turn began
    appendCount, \* appends made to the session's messages so far
    updatedAt,   \* Session.UpdatedAt, as the number of the append that set it
    current,     \* the id of the session manager's current session
    store,       \* the session files: what SaveSession last wrote per id
    cmd,         \* the session command main's loop is answering, if any
    models,      \* Config.Models: what is configured for each provider
    clientProvider, \* Client.config.Provider
    backend,     \* Client.provider: the backend Chat goes to
    cfgProvider, \* cfg.AI.Provider of main
    sw,          \* the last provider switch: request, error, state before it
    file,        \* the content of the file edit_file works on
    edit,        \* the last edit_file call: arguments, error, content before
    tree,        \* the files filepath.Walk visits, in order
    search,      \* the last search call: max_results and what it returned
    registry,    \* Manager.tools: the tool registered under each name
    regLog,      \* the RegisterTool calls made, in order
    currentProject, \* ContextManager.currentProject
    contextFile, \* ai-assistant-context.json: what SaveContext last wrote
    mutex,       \* ContextManager.mutex: the writer and the readers holding it
    saving,      \* autosave goroutines started that have not taken the lock yet
    ctxOp,       \* what the main goroutine last did with the context manager
    added,       \* the AddRecentFile calls so far: last file, counts
    probe,       \* the last call tried against a tool's required parameters
    fs,          \* the files copy_file works on, by path
    copy         \* the last copy_file call: paths, error, files before

\* the turn's variables other than the transcript and the position
turnData == <<request, toolCalls, results, idx, retry, outcome, chatCalls,
              initial, followUps, execRounds, executed, sleeps, turnBase,
              appendCount, updatedAt>>

\* the variables of the turn
turnVars == <<messages, pc, turnData>>

\* the session manager and the session files
sessVars == <<current, store, cmd>>

\* the provider client and main's configuration
provVars == <<models, clientProvider, backend, cfgProvider, sw>>

\* the file under edit_file
editVars == <<file, edit>>

\* the tree under search
searchVars == <<tree, search>>

\* the tool registry
regVars == <<registry, regLog>>

\* the context manager, its file and its goroutines
ctxVars == <<currentProject, contextFile, mutex, saving, ctxOp, added>>

\* the call tried against the tool definitions
schemaVars == <<probe>>

\* the files under copy_file
copyVars == <<fs, copy>>

\* the registry, the context manager, the tool definitions and copy_file
moreVars == <<regVars, ctxVars, schemaVars, copyVars>>

\* the variables the turn does not touch
extVars == <<sessVars, provVars, editVars, searchVars, moreVars>>

vars == <<turnVars, extVars>>

----------------------------------------------------------------------------
(* Bounds of the model *)

\* a turn is accepted only while the transcript holds fewer messages
MaxHistory == 4
\* tool calls the provider replies of one run carry in total
MaxCalls == 2
\* longest message list addSystemMessage is tried on (SpecSys)
MaxLen == 3

(* Program constants *)

\* one retry more than the budget
maxRetries_OneMore == 2 + 1

\* main.go:787  maxRetries := 2
maxRetries == 2

----------------------------------------------------------------------------
(* Values *)

NoCalls == << >>
NoID == ""
nil == "nil"

\* ai.Message as main.go uses it: Role, Content, ToolCalls; the tool-role
\* message carries the correlation identifier
Message(role, content, calls, id) ==
    [role |-> role, content |-> content, toolCalls |-> calls, toolCallID |-> id]

\* the prompt text of addSystemMessage, abstracted to one token
SystemPrompt == "SYSTEM_PROMPT"

\* the tool map NewManager builds
tools == {"read_file", "write_file", "edit_file", "list_files",
          "create_directory", "delete_file", "rename_file", "copy_file",
          "move_file", "file_info", "execute_command", "search",
          "replace_text", "get_current_directory", "get_system_info",
          "get_project_info", "get_working_context", "get_smart_context",
          "init_novel_project", "get_novel_context", "add_character",
          "add_plot_line", "get_chapter_context", "search_novel_history"}

----------------------------------------------------------------------------
(* Inputs: what the user types and what a provider reply can carry *)

UserInputs == {"hello"}
Responses == {"reply"}

\* provider-assigned identifiers, unique within one reply
CallIDs == <<"call_1", "call_2", "call_3", "call_4">>

\* a parameter bag is a set of <<key, value>> pairs
ParamsA == {<<"file_path", "a.txt">>}
NoParams == {}

\* call.Function["name"]: a string, or absent / not a string
NameRead == [isString |-> TRUE, str |-> "read_file"]
NameUnknown == [isString |-> TRUE, str |-> "no_such_tool"]
NameMissing == [isString |-> FALSE, str |-> ""]

\* call.Function["arguments"]: absent, a nested object, or a string
ArgsAbsent == [kind |-> "absent", object |-> NoParams, text |-> ""]
ArgsObject == [kind |-> "object", object |-> ParamsA, text |-> ""]
ArgsGoodString ==
    [kind |-> "string", object |-> NoParams, text |-> "{\"file_path\":\"a.txt\"}"]
ArgsBadString == [kind |-> "string", object |-> NoParams, text |-> "{bad"]

AllArgs == {ArgsAbsent, ArgsObject, ArgsGoodString, ArgsBadString}

\* the (Type, Function) part of the tool calls a reply may carry: every
\* combination for kind "function", and kinds other than "function"
CallShapes ==
    [Type : {"function"}, name : {NameRead, NameUnknown}, arguments : AllArgs]
    \cup [Type : {"function"}, name : {NameMissing}, arguments : {ArgsObject}]
    \cup [Type : {""}, name : {NameRead}, arguments : {ArgsObject}]
    \cup [Type : {""}, name : {NameUnknown}, arguments : {ArgsBadString}]

\* ai.ToolCall
ToolCall(id, shape) ==
    [ID |-> id, Type |-> shape.Type,
     Function |-> [name |-> shape.name, arguments |-> shape.arguments]]

\* the tool-call list of a reply: n calls of the shapes f, with distinct ids
ToolCallList(n, f) == [k \in 1..n |-> ToolCall(CallIDs[k], f[k])]

RECURSIVE CallsCarried(_)
\* the tool calls the messages of a transcript carry
CallsCarried(msgs) ==
    IF msgs = << >> THEN 0
    ELSE Len(Head(msgs).toolCalls) + CallsCarried(Tail(msgs))

----------------------------------------------------------------------------
(* Manager.ExecuteTools *)

\* json.Unmarshal([]byte(args), &params): a text decodes to its object or fails
JSONUnmarshal(text) ==
    IF text = "{\"file_path\":\"a.txt\"}" THEN [err |-> nil, params |-> ParamsA]
    ELSE IF text = "{}" THEN [err |-> nil, params |-> NoParams]
    ELSE [err |-> "invalid character", params |-> NoParams]

\* tools.ToolResult
ToolResult(name, text, err, id) ==
    [ToolName |-> name, Result |-> text, Error |-> err, ToolCallID |-> id]

\* ReadFileTool.Execute; readable: whether os.ReadFile succeeds
ReadFileExecute(params, readable) ==
    IF ~(\E p \in params : p[1] = "file_path")
    THEN [text |-> "", err |-> "file_path parameter is required"]
    ELSE IF ~readable
    THEN [text |-> "", err |-> "failed to read file"]
    ELSE [text |-> "content", err |-> nil]

\* tool.Execute(ctx, params) of the tool registered under funcName
\* (the replies of this model name only read_file among the registered tools)
ToolExecute(funcName, params, readable) == ReadFileExecute(params, readable)

\* ToolCallID filled with the function name instead of call.ID
ResultID_FuncName(call) == call.Function.name.str

\* the correlation identifier ExecuteTools puts on a result
ResultID(call) == call.ID

\* One iteration of ExecuteTools' loop on `call`:
\*   emit - a ToolResult is appended to results
\*   ran  - tool.Execute was called
ExecuteCall(call, readable) ==
    LET funcName == call.Function.name.str
        arguments == call.Function.arguments
        decoded == JSONUnmarshal(arguments.text)
        params == IF arguments.kind = "object" THEN arguments.object
                  ELSE IF arguments.kind = "string" THEN decoded.params
                  ELSE NoParams
        out == ToolExecute(funcName, params, readable)
        skip == [emit |-> FALSE, ran |-> FALSE,
                 result |-> ToolResult("", "", nil, NoID)]
    IN  IF call.Type # "function" THEN skip
        ELSE IF ~call.Function.name.isString THEN skip
        ELSE IF arguments.kind = "string" /\ decoded.err # nil
        THEN [emit |-> TRUE, ran |-> FALSE,
              result |-> ToolResult(funcName, "",
                                    "failed to parse arguments JSON", ResultID(call))]
        ELSE IF funcName \notin tools
        THEN [emit |-> TRUE, ran |-> FALSE,
              result |-> ToolResult(funcName, "", "unknown tool", ResultID(call))]
        ELSE [emit |-> TRUE, ran |-> TRUE,
              result |-> ToolResult(funcName, out.text, out.err, ResultID(call))]

----------------------------------------------------------------------------
(* The session (package session): Session.AddMessage, AddToolResult,
   GetMessages *)

\* Session.GetMessages
GetMessages(msgs) == msgs

\* Session.AddMessage(role, content)
AddMessage(msgs, role, content) ==
    Append(msgs, Message(role, content, NoCalls, NoID))

\* Session.AddToolResult(result): one tool-role message per result, its text
\* the failure description when the result carries an error
AddToolResult(msgs, result) ==
    Append(msgs, Message("tool",
                         IF result.Error # nil THEN result.Error ELSE result.Result,
                         NoCalls, result.ToolCallID))

\* only the last result of the round reaches the session
AddToolResults_KeepsLast(msgs, rs) ==
    IF rs = << >> THEN msgs ELSE AddToolResult(msgs, rs[Len(rs)])

RECURSIVE AddToolResults(_, _)
\* the loop `for _, result := range toolResults` of processInput
AddToolResults(msgs, rs) ==
    IF rs = << >> THEN msgs
    ELSE AddToolResults(AddToolResult(msgs, Head(rs)), Tail(rs))

----------------------------------------------------------------------------
(* addSystemMessage *)

systemMessage == Message("system", SystemPrompt, NoCalls, NoID)

\* the prompt prepended without looking at position zero
addSystemMessage_Always(msgs) == <<systemMessage>> \o msgs

addSystemMessage(msgs) ==
    IF Len(msgs) > 0 /\ msgs[1].role = "system" THEN msgs
    ELSE <<systemMessage>> \o msgs

----------------------------------------------------------------------------
(* The session manager (package session) as main.go uses it *)

\* Session.ID: a uuid, its first eight characters and the rest
SessionID(short, rest) == [short |-> short, rest |-> rest]

\* the session NewManager starts with
FirstID == SessionID("ffffffff", "-0")
\* the ids NewSession can generate: two of them begin alike
NewIDs == {SessionID("aaaaaaaa", "-1"), SessionID("aaaaaaaa", "-2"),
           SessionID("bbbbbbbb", "-1")}
SessionIDs == {FirstID} \cup NewIDs
NoSessionID == SessionID("", "")

\* a session file: absent, or the messages SaveSession wrote
NoFile == [saved |-> FALSE, messages |-> << >>]
File(msgs) == [saved |-> TRUE, messages |-> msgs]
EmptyStore == [id \in SessionIDs |-> NoFile]

\* no command is being answered
\* a command of main's loop: its argument, the session it resolved to and
\* the error it printed
Cmd(kind, arg, target, err) ==
    [kind |-> kind, arg |-> arg, target |-> target, err |-> err]
NoCmd == Cmd("none", NoSessionID, NoSessionID, nil)

\* the session manager of a program that was just started
SessionsAtStart ==
    /\ current = FirstID
    /\ store = EmptyStore
    /\ cmd = NoCmd

----------------------------------------------------------------------------
(* The provider client (package ai) *)

\* ai.Provider: the two the client knows, and one it does not
ProviderZhipu == "zhipu"
ProviderDeepseek == "deepseek"
ProviderOther == "other"
Providers == {ProviderZhipu, ProviderDeepseek, ProviderOther}

\* Config.Models[provider]: no entry, an entry with an empty APIKey, or an
\* entry with an APIKey
ModelConfigs == {"absent", "no key", "key"}

\* a provider switch: the provider asked for, the error returned, and
\* Client.config.Provider and Client.provider as they were before it
Switch(requested, err, provider, was) ==
    [requested |-> requested, err |-> err, provider |-> provider, backend |-> was]
NoSwitch == Switch("", nil, "", "")

\* ai.NewClient: the backend of config.Provider, Zhipu's by default
NewClientProvider(provider) ==
    IF provider = ProviderDeepseek THEN ProviderDeepseek ELSE ProviderZhipu

\* a client started on Zhipu, the only provider configured
ProviderAtStart ==
    /\ models = [p \in Providers |-> IF p = ProviderZhipu THEN "key" ELSE "absent"]
    /\ cfgProvider = ProviderZhipu
    /\ clientProvider = ProviderZhipu
    /\ backend = NewClientProvider(ProviderZhipu)
    /\ sw = NoSwitch

----------------------------------------------------------------------------
(* Values of edit_file and search *)

\* an edit_file call by line range: start_line, end_line (start_line when
\* absent), new_content (given or not), the error returned and the content
\* of the file before the call
Edit(start, end, newContent, err, before) ==
    [start |-> start, end |-> end, newContent |-> newContent, err |-> err,
     before |-> before]

\* a parameter that may be absent from the bag
Given(v) == [ok |-> TRUE, value |-> v]
NotGiven(v) == [ok |-> FALSE, value |-> v]

\* no edit_file call was made
NoEdit == Edit(0, 0, NotGiven(<< >>), nil, << >>)

\* a search call: max_results (given or not), the positions in the walk of
\* the files it reported, one entry each, and whether the closing line
\* says the results were limited
Search(maxResults, entries, truncated) ==
    [maxResults |-> maxResults, entries |-> entries, truncated |-> truncated]

\* no search call was made
NoSearch == Search(NotGiven(0), << >>, FALSE)

EditAtStart == file = << >> /\ edit = NoEdit
SearchAtStart == tree = << >> /\ search = NoSearch

----------------------------------------------------------------------------
(* Values of the registry, the context manager, the tool definitions and
   copy_file *)

\* no tool
NoTool == "none"

\* the names tools are registered under, and the tools themselves
RegNames == {"read_file", "search"}
Impls == {"A", "B"}

\* ContextManager.currentProject: nil, or a ProjectContext with its Path
\* and RecentFiles
NoProject == [set |-> FALSE, path |-> "", recentFiles |-> << >>]
ProjectContext(path, recentFiles) ==
    [set |-> TRUE, path |-> path, recentFiles |-> recentFiles]

\* the context file: absent, or the currentProject SaveContext wrote
NoContextFile == [written |-> FALSE, project |-> NoProject]
ContextFile(project) == [written |-> TRUE, project |-> project]

\* sync.RWMutex: whether a writer holds it, and how many readers do
Unlocked == [writer |-> FALSE, readers |-> 0]

\* no AddRecentFile call was made
NoAdds == [last |-> 0, introduced |-> 0, reAdds |-> 0]

\* a call tried against a tool's definition: the tool, the parameter names
\* supplied, and the executor's validation error
Probe(tool, supplied, err) == [tool |-> tool, supplied |-> supplied, err |-> err]
NoProbe == Probe(NoTool, {}, nil)

\* a file: absent, or its content
Absent == [exists |-> FALSE, content |-> ""]
Present(content) == [exists |-> TRUE, content |-> content]
Paths == {"a.txt", "b.txt"}

\* a copy_file call: src_path, dst_path, the error, and the files before
Copy(srcPath, dstPath, err, before) ==
    [srcPath |-> srcPath, dstPath |-> dstPath, err |-> err, before |-> before]
NoCopy == Copy("", "", nil, [p \in Paths |-> Absent])

\* NewManager's registry before the first RegisterTool, and no call probed
RegistryAtStart ==
    /\ registry = [n \in RegNames |-> NoTool]
    /\ regLog = << >>
    /\ probe = NoProbe

\* NewContextManager with no context file to load
ContextAtStart ==
    /\ currentProject = NoProject
    /\ contextFile = NoContextFile
    /\ mutex = Unlocked
    /\ saving = 0
    /\ ctxOp = NoTool
    /\ added = NoAdds

\* no file to copy yet
CopyAtStart ==
    /\ fs = [p \in Paths |-> Absent]
    /\ copy = NoCopy

MoreAtStart ==
    /\ RegistryAtStart
    /\ ContextAtStart
    /\ CopyAtStart

----------------------------------------------------------------------------
(* processInput *)

Answer == [status |-> "answer", retries |-> 0]
\* "AI request failed: %w"
InitialFailed == [status |-> "AI request failed", retries |-> 0]
\* the error naming the attempts made instead of the retries
FollowUpFailed_NamesAttempts(n) ==
    [status |-> "AI follow-up request failed", retries |-> n + 1]

\* "AI follow-up request failed after %d retries: %w"
FollowUpFailed(n) == [status |-> "AI follow-up request failed", retries |-> n]
NoOutcome == [status |-> "none", retries |-> 0]

\* a constant one-second wait
SleepSeconds_Constant(r) == 1

\* time.Sleep(time.Second * time.Duration(retry+1)), in seconds
SleepSeconds(r) == r + 1

\* processInput returns: its locals are gone
Return(o) ==
    /\ outcome' = o
    /\ pc' = "idle"
    /\ request' = << >>
    /\ toolCalls' = NoCalls
    /\ results' = << >>
    /\ idx' = 0
    /\ retry' = 0

\* processInput has not been called yet
TurnAtStart ==
    /\ messages = << >>
    /\ request = << >>
    /\ pc = "idle"
    /\ toolCalls = NoCalls
    /\ results = << >>
    /\ idx = 0
    /\ retry = 0
    /\ outcome = NoOutcome
    /\ chatCalls = 0
    /\ initial = "none"
    /\ followUps = << >>
    /\ execRounds = 0
    /\ executed = << >>
    /\ sleeps = << >>
    /\ turnBase = 0
    /\ appendCount = 0
    /\ updatedAt = 0

Init ==
    /\ TurnAtStart
    /\ SessionsAtStart
    /\ MoreAtStart
    /\ ProviderAtStart
    /\ EditAtStart
    /\ SearchAtStart

\* main.go:737-744: the user message is appended and the request is built
StartTurn ==
    /\ pc = "idle"
    /\ Len(messages) < MaxHistory
    /\ \E userInput \in UserInputs :
          /\ messages' = AddMessage(messages, "user", userInput)
          /\ request' = addSystemMessage(GetMessages(messages'))
    /\ pc' = "chat"
    /\ turnBase' = Len(messages)
    /\ outcome' = NoOutcome
    /\ chatCalls' = 0
    /\ initial' = "none"
    /\ followUps' = << >>
    /\ execRounds' = 0
    /\ executed' = << >>
    /\ sleeps' = << >>
    /\ UNCHANGED <<toolCalls, results, idx, retry>>
    /\ appendCount' = appendCount + 1
    /\ updatedAt' = appendCount'
    /\ UNCHANGED extVars

\* the failed initial call falls through to the retried follow-up loop
InitialChatFails_FallsThrough ==
    /\ pc = "chat"
    /\ chatCalls' = chatCalls + 1
    /\ initial' = "err"
    /\ retry' = 0
    /\ pc' = "followup"
    /\ UNCHANGED <<messages, request, toolCalls, results, idx, outcome, followUps,
                   execRounds, executed, sleeps, turnBase>>
    /\ UNCHANGED <<appendCount, updatedAt, extVars>>

\* the failed initial call takes the turn's user message back
InitialChatFails_RollsBack ==
    /\ pc = "chat"
    /\ chatCalls' = chatCalls + 1
    /\ initial' = "err"
    /\ Return(InitialFailed)
    /\ messages' = SubSeq(messages, 1, turnBase)
    /\ UNCHANGED <<followUps, execRounds, executed, sleeps, turnBase>>
    /\ UNCHANGED <<appendCount, updatedAt, extVars>>

\* main.go:747-750: the initial provider call fails
InitialChatFails ==
    /\ pc = "chat"
    /\ chatCalls' = chatCalls + 1
    /\ initial' = "err"
    /\ Return(InitialFailed)
    /\ UNCHANGED <<messages, followUps, execRounds, executed, sleeps, turnBase>>
    /\ UNCHANGED <<appendCount, updatedAt, extVars>>

\* main.go:747, 807-812: the reply carries no tool call
InitialChatAnswers ==
    /\ pc = "chat"
    /\ chatCalls' = chatCalls + 1
    /\ \E response \in Responses :
          messages' = AddMessage(messages, "assistant", response)
    /\ initial' = "ok"
    /\ Return(Answer)
    /\ UNCHANGED <<followUps, execRounds, executed, sleeps, turnBase>>
    /\ appendCount' = appendCount + 1
    /\ updatedAt' = appendCount'
    /\ UNCHANGED extVars

\* main.go:747, 753-764: the reply carries tool calls; the assistant message
\* with the raw list is appended and ExecuteTools is entered
InitialChatCallsTools ==
    /\ pc = "chat"
    /\ chatCalls' = chatCalls + 1
    /\ \E response \in Responses, n \in 1..(MaxCalls - CallsCarried(messages)) :
          \E f \in [1..n -> CallShapes] :
             LET calls == ToolCallList(n, f)
             IN  /\ Len(calls) > 0
                 /\ messages' = Append(messages,
                                       Message("assistant", response, calls, NoID))
                 /\ toolCalls' = calls
    /\ results' = << >>
    /\ idx' = 1
    /\ execRounds' = execRounds + 1
    /\ pc' = "exec"
    /\ initial' = "ok"
    /\ UNCHANGED <<request, retry, outcome, followUps, executed, sleeps, turnBase>>
    /\ appendCount' = appendCount + 1
    /\ UNCHANGED <<updatedAt, extVars>>

\* manager.go:199-244: one iteration of ExecuteTools' loop
ExecuteToolsStep ==
    /\ pc = "exec"
    /\ idx <= Len(toolCalls)
    /\ \E readable \in BOOLEAN :
          LET call == toolCalls[idx]
              step == ExecuteCall(call, readable)
          IN  /\ results' = IF step.emit THEN Append(results, step.result)
                            ELSE results
              /\ executed' = IF step.ran THEN Append(executed, call.ID)
                             ELSE executed
    /\ idx' = idx + 1
    /\ UNCHANGED <<messages, request, pc, toolCalls, retry, outcome, chatCalls,
                   initial, followUps, execRounds, sleeps, turnBase>>
    /\ UNCHANGED <<appendCount, updatedAt, extVars>>

\* manager.go:246, main.go:764-786: ExecuteTools returns, every result is
\* appended as a tool message and the follow-up request is built
AppendToolResults ==
    /\ pc = "exec"
    /\ idx > Len(toolCalls)
    /\ messages' = AddToolResults(messages, results)
    /\ request' = addSystemMessage(GetMessages(messages'))
    /\ retry' = 0
    /\ pc' = "followup"
    /\ UNCHANGED <<toolCalls, results, idx, outcome, chatCalls, initial,
                   followUps, execRounds, executed, sleeps, turnBase>>
    /\ appendCount' = appendCount + Len(results)
    /\ updatedAt' = IF results = << >> THEN updatedAt ELSE appendCount'
    /\ UNCHANGED extVars

\* main.go:789-793, 801-806: a follow-up attempt succeeds
FollowUpSucceeds ==
    /\ pc = "followup"
    /\ retry <= maxRetries
    /\ chatCalls' = chatCalls + 1
    /\ \E response \in Responses :
          messages' = AddMessage(messages, "assistant", response)
    /\ followUps' = Append(followUps, "ok")
    /\ Return(Answer)
    /\ UNCHANGED <<initial, execRounds, executed, sleeps, turnBase>>
    /\ appendCount' = appendCount + 1
    /\ updatedAt' = appendCount'
    /\ UNCHANGED extVars

\* the retry starts over from the tool execution
FollowUpRetries_ReExecutes ==
    /\ pc = "followup"
    /\ retry < maxRetries
    /\ chatCalls' = chatCalls + 1
    /\ followUps' = Append(followUps, "err")
    /\ sleeps' = Append(sleeps, SleepSeconds(retry))
    /\ retry' = retry + 1
    /\ pc' = "exec"
    /\ idx' = 1
    /\ results' = << >>
    /\ UNCHANGED <<messages, request, toolCalls, outcome, initial, execRounds,
                   executed, turnBase>>
    /\ UNCHANGED <<appendCount, updatedAt, extVars>>

\* main.go:789-799: a follow-up attempt fails with retries left: warn, sleep
\* retry+1 seconds, next iteration
FollowUpRetries ==
    /\ pc = "followup"
    /\ retry < maxRetries
    /\ chatCalls' = chatCalls + 1
    /\ followUps' = Append(followUps, "err")
    /\ sleeps' = Append(sleeps, SleepSeconds(retry))
    /\ retry' = retry + 1
    /\ UNCHANGED <<messages, request, pc, toolCalls, results, idx, outcome,
                   initial, execRounds, executed, turnBase>>
    /\ UNCHANGED <<appendCount, updatedAt, extVars>>

\* main.go:789-803: the last attempt fails: no sleep, the loop ends, the turn
\* returns the error
FollowUpExhausted ==
    /\ pc = "followup"
    /\ retry = maxRetries
    /\ chatCalls' = chatCalls + 1
    /\ followUps' = Append(followUps, "err")
    /\ Return(FollowUpFailed(maxRetries))
    /\ UNCHANGED <<messages, initial, execRounds, executed, sleeps, turnBase>>
    /\ UNCHANGED <<appendCount, updatedAt, extVars>>

Next ==
    \/ StartTurn
    \/ InitialChatFails
    \/ InitialChatAnswers
    \/ InitialChatCallsTools
    \/ ExecuteToolsStep
    \/ AppendToolResults
    \/ FollowUpSucceeds
    \/ FollowUpRetries
    \/ FollowUpExhausted

Spec == Init /\ [][Next]_vars

\* the steps of a turn under way: processInput runs to its return once each
\* provider call and each tool execution returns
TurnStep ==
    \/ InitialChatFails
    \/ InitialChatAnswers
    \/ InitialChatCallsTools
    \/ ExecuteToolsStep
    \/ AppendToolResults
    \/ FollowUpSucceeds
    \/ FollowUpRetries
    \/ FollowUpExhausted

SpecFair == Spec /\ WF_vars(TurnStep)

----------------------------------------------------------------------------
(* A registered tool whose Execute panics *)

\* manager.go:237: tool.Execute(ctx, params) panics. ExecuteTools, processInput
\* and main's loop defer no recover(), so the panic unwinds the only goroutine
\* and the runtime ends the process: no result is appended for the call and
\* the remaining calls are never reached.
ExecutePanics ==
    /\ pc = "exec"
    /\ idx <= Len(toolCalls)
    /\ \E readable \in BOOLEAN : ExecuteCall(toolCalls[idx], readable).ran
    /\ pc' = "crashed"
    /\ UNCHANGED <<messages, turnData, extVars>>

NextFault ==
    \/ Next
    \/ ExecutePanics

SpecFault == Init /\ [][NextFault]_vars

----------------------------------------------------------------------------
(* addSystemMessage on arbitrary message lists *)

Roles == {"system", "user", "assistant", "tool"}

MessageLists ==
    UNION {[1..n -> {Message(r, "text", NoCalls, NoID) : r \in Roles}]
           : n \in 0..MaxLen}

InitSys ==
    /\ messages \in MessageLists
    /\ request = messages
    /\ pc = "sys0"
    /\ toolCalls = NoCalls
    /\ results = << >>
    /\ idx = 0
    /\ retry = 0
    /\ outcome = NoOutcome
    /\ chatCalls = 0
    /\ initial = "none"
    /\ followUps = << >>
    /\ execRounds = 0
    /\ executed = << >>
    /\ sleeps = << >>
    /\ turnBase = 0
    /\ appendCount = 0
    /\ updatedAt = 0
    /\ SessionsAtStart
    /\ MoreAtStart
    /\ ProviderAtStart
    /\ EditAtStart
    /\ SearchAtStart

\* messages = addSystemMessage(...), applied to its own result the second time
ApplySystemMessage ==
    /\ pc \in {"sys0", "sys1"}
    /\ request' = addSystemMessage(request)
    /\ pc' = IF pc = "sys0" THEN "sys1" ELSE "sys2"
    /\ UNCHANGED <<messages, toolCalls, results, idx, retry, outcome, chatCalls,
                   initial, followUps, execRounds, executed, sleeps, turnBase>>
    /\ UNCHANGED <<appendCount, updatedAt, extVars>>

NextSys == ApplySystemMessage

SpecSys == InitSys /\ [][NextSys]_vars

----------------------------------------------------------------------------
(* main's loop with the session commands: /new, /switchsession,
   /deletesession, /exit and /quit, end of input *)

\* a line is answered only while the session holds fewer messages
MaxSessionLen == 2

\* sess.ID[:8], as the user types it
ShortID(id) == SessionID(id.short, "")

\* what the user types after /switchsession and /deletesession: a full id,
\* a short id, or an id no session has
SessionArgs ==
    SessionIDs \cup {ShortID(id) : id \in SessionIDs}
               \cup {SessionID("cccccccc", "")}

StoredIDs(st) == {id \in SessionIDs : st[id].saved}

\* Manager.ListSessions: the stored sessions, in the order the directory
\* listing gives them
ListSessions(st) ==
    {l \in [1..Cardinality(StoredIDs(st)) -> StoredIDs(st)] :
        \A i, j \in DOMAIN l : l[i] = l[j] => i = j}

\* Manager.SaveSession(session): the file of the session is overwritten
SaveSession(st, id, msgs) == [st EXCEPT ![id] = File(msgs)]

\* Manager.DeleteSession(id): the file of the session is removed
DeleteSession(st, id) == [st EXCEPT ![id] = NoFile]

\* the lookup compares full ids only
FindSession_FullIDOnly(sessions, sessionID) ==
    IF \E k \in DOMAIN sessions : sessions[k] = sessionID
    THEN sessionID ELSE NoSessionID

RECURSIVE FindSession(_, _)
\* the lookup loop of switchSession and deleteSession: the first listed
\* session whose id, or whose id's first eight characters, is sessionID
FindSession(sessions, sessionID) ==
    IF sessions = << >> THEN NoSessionID
    ELSE IF Head(sessions) = sessionID \/ ShortID(Head(sessions)) = sessionID
    THEN Head(sessions)
    ELSE FindSession(Tail(sessions), sessionID)

\* what a session command leaves alone
sessRest == <<turnData, provVars, editVars, searchVars, moreVars>>

\* main.go:77: a line that is no command goes through processInput; the
\* provider answers without tool calls, or fails
Converse ==
    /\ pc = "idle"
    /\ Len(messages) < MaxSessionLen
    /\ \E userInput \in UserInputs, response \in Responses, ok \in BOOLEAN :
          LET asked == AddMessage(messages, "user", userInput)
          IN  messages' = IF ok THEN AddMessage(asked, "assistant", response)
                          ELSE asked
    /\ UNCHANGED <<pc, sessVars, sessRest>>

\* "/new": Manager.NewSession makes a new, empty session the current one;
\* newSession saves it
newSession ==
    /\ pc = "idle"
    /\ \E id \in NewIDs \ (StoredIDs(store) \cup {current}) :
          /\ current' = id
          /\ messages' = << >>
          /\ store' = SaveSession(store, id, << >>)
          /\ cmd' = Cmd("new", NoSessionID, id, nil)
    /\ pc' = "cmd"
    /\ UNCHANGED sessRest

\* "/switchsession <id>": the session is looked up in the listing, the
\* current session is saved, Manager.SwitchSession loads the target and
\* makes it the current one
switchSession ==
    /\ pc = "idle"
    /\ \E sessionID \in SessionArgs, sessions \in ListSessions(store) :
          LET targetSession == FindSession(sessions, sessionID)
              saved == SaveSession(store, current, messages)
          IN  IF targetSession = NoSessionID
              THEN /\ cmd' = Cmd("switch", sessionID, NoSessionID, "not found")
                   /\ UNCHANGED <<messages, current, store>>
              ELSE /\ store' = saved
                   /\ current' = targetSession
                   /\ messages' = saved[targetSession].messages
                   /\ cmd' = Cmd("switch", sessionID, targetSession, nil)
    /\ pc' = "cmd"
    /\ UNCHANGED sessRest

\* the session found is deleted even when it is the current one
deleteSession_NoGuard ==
    /\ pc = "idle"
    /\ \E sessionID \in SessionArgs, sessions \in ListSessions(store) :
          LET targetSession == FindSession(sessions, sessionID)
          IN  IF targetSession = NoSessionID
              THEN /\ cmd' = Cmd("delete", sessionID, NoSessionID, "not found")
                   /\ UNCHANGED store
              ELSE /\ store' = DeleteSession(store, targetSession)
                   /\ cmd' = Cmd("delete", sessionID, targetSession, nil)
    /\ pc' = "cmd"
    /\ UNCHANGED <<messages, current, sessRest>>

\* "/deletesession <id>": the session is looked up in the listing; the
\* current session is refused, any other is deleted
deleteSession ==
    /\ pc = "idle"
    /\ \E sessionID \in SessionArgs, sessions \in ListSessions(store) :
          LET targetSession == FindSession(sessions, sessionID)
          IN  IF targetSession = NoSessionID
              THEN /\ cmd' = Cmd("delete", sessionID, NoSessionID, "not found")
                   /\ UNCHANGED store
              ELSE IF targetSession = current
              THEN /\ cmd' = Cmd("delete", sessionID, targetSession, "in use")
                   /\ UNCHANGED store
              ELSE /\ store' = DeleteSession(store, targetSession)
                   /\ cmd' = Cmd("delete", sessionID, targetSession, nil)
    /\ pc' = "cmd"
    /\ UNCHANGED <<messages, current, sessRest>>

\* handleSpecialCommands returns and the loop reads the next line
CommandReturns ==
    /\ pc = "cmd"
    /\ pc' = "idle"
    /\ cmd' = NoCmd
    /\ UNCHANGED <<messages, current, store, sessRest>>

\* "/exit", "/quit": os.Exit(0) inside handleSpecialCommands
exitCommand ==
    /\ pc = "idle"
    /\ pc' = "exited"
    /\ cmd' = Cmd("exit", NoSessionID, NoSessionID, nil)
    /\ UNCHANGED <<messages, current, store, sessRest>>

\* ReadLine returns io.EOF: the loop ends and the current session is saved
EndOfInput ==
    /\ pc = "idle"
    /\ store' = SaveSession(store, current, messages)
    /\ pc' = "exited"
    /\ cmd' = Cmd("eof", NoSessionID, NoSessionID, nil)
    /\ UNCHANGED <<messages, current, sessRest>>

NextSess ==
    \/ Converse
    \/ newSession
    \/ switchSession
    \/ deleteSession
    \/ CommandReturns
    \/ exitCommand
    \/ EndOfInput

SpecSess == Init /\ [][NextSess]_vars

----------------------------------------------------------------------------
(* Client.SwitchProvider and the /switch command *)

\* Client.SwitchProvider(provider): the error it returns, and
\* Client.config.Provider and Client.provider when it returns
SwitchProvider(provider) ==
    LET result(err, p, b) == [err |-> err, provider |-> p, backend |-> b]
    IN  IF models[provider] = "absent"
        THEN result("no configuration found for provider", clientProvider, backend)
        ELSE IF models[provider] = "no key"
        THEN result("no API key configured for provider", clientProvider, backend)
        ELSE IF provider = ProviderZhipu
        THEN result(nil, provider, ProviderZhipu)
        ELSE IF provider = ProviderDeepseek
        THEN result(nil, provider, ProviderDeepseek)
        ELSE result("unsupported provider", provider, backend)

\* the configurations config.Load hands to ai.NewClient: the two known
\* providers always have an entry
InitProv ==
    /\ TurnAtStart
    /\ SessionsAtStart
    /\ MoreAtStart
    /\ EditAtStart
    /\ SearchAtStart
    /\ models \in {m \in [Providers -> ModelConfigs] :
                      m[ProviderZhipu] # "absent" /\ m[ProviderDeepseek] # "absent"}
    /\ cfgProvider \in Providers
    /\ clientProvider = cfgProvider
    /\ backend = NewClientProvider(cfgProvider)
    /\ sw = NoSwitch

\* what a provider switch leaves alone
provRest == <<turnVars, sessVars, editVars, searchVars, moreVars>>

\* a caller of the client switches the provider
ClientSwitchProvider ==
    /\ \E provider \in Providers :
          LET r == SwitchProvider(provider)
          IN  /\ sw' = Switch(provider, r.err, clientProvider, backend)
              /\ clientProvider' = r.provider
              /\ backend' = r.backend
    /\ UNCHANGED <<models, cfgProvider, provRest>>

\* "/switch <name>": switchProvider of main.go
switchProvider ==
    /\ \E provider \in Providers :
          IF provider \notin {ProviderZhipu, ProviderDeepseek}
          THEN /\ sw' = Switch(provider, "unsupported by /switch", clientProvider, backend)
               /\ UNCHANGED <<clientProvider, backend, cfgProvider>>
          ELSE LET r == SwitchProvider(provider)
               IN  /\ sw' = Switch(provider, r.err, clientProvider, backend)
                   /\ clientProvider' = r.provider
                   /\ backend' = r.backend
                   /\ cfgProvider' = IF r.err = nil THEN provider ELSE cfgProvider
    /\ UNCHANGED <<models, provRest>>

NextProv ==
    \/ ClientSwitchProvider
    \/ switchProvider

SpecProv == InitProv /\ [][NextProv]_vars

----------------------------------------------------------------------------
(* "/config set" beside "/switch" *)

\* a session started on one of the two providers the client knows
InitCfg ==
    /\ TurnAtStart
    /\ SessionsAtStart
    /\ MoreAtStart
    /\ EditAtStart
    /\ SearchAtStart
    /\ models \in {m \in [Providers -> ModelConfigs] :
                      m[ProviderZhipu] # "absent" /\ m[ProviderDeepseek] # "absent"}
    /\ cfgProvider \in {ProviderZhipu, ProviderDeepseek}
    /\ clientProvider = cfgProvider
    /\ backend = NewClientProvider(cfgProvider)
    /\ sw = NoSwitch

\* "/config set ai.provider <value>": setConfigValue writes cfg.AI.Provider
\* and refreshes the prompt; the client is not told
setConfigProvider ==
    /\ \E value \in Providers :
          IF value \in {ProviderZhipu, ProviderDeepseek}
          THEN /\ cfgProvider' = value
               /\ sw' = Switch(value, nil, clientProvider, backend)
          ELSE /\ sw' = Switch(value, "provider must be zhipu or deepseek",
                               clientProvider, backend)
               /\ UNCHANGED cfgProvider
    /\ UNCHANGED <<models, clientProvider, backend, provRest>>

\* "/config set <provider>.api_key <value>": the entry of cfg.AI.Models, the
\* map the client's configuration shares, gets the key
setConfigAPIKey ==
    /\ \E provider \in {ProviderZhipu, ProviderDeepseek}, hasKey \in BOOLEAN :
          models' = [models EXCEPT ![provider] = IF hasKey THEN "key" ELSE "no key"]
    /\ UNCHANGED <<cfgProvider, clientProvider, backend, sw, provRest>>

NextCfg ==
    \/ switchProvider
    \/ setConfigProvider
    \/ setConfigAPIKey

SpecCfg == InitCfg /\ [][NextCfg]_vars

----------------------------------------------------------------------------
(* EditFileTool.Execute by line range; a text is a sequence of characters *)

\* longest file content, in characters
MaxFileLen == 3
\* longest new_content, in characters
MaxNewLen == 2

Chars == {"a", "b", "\n"}

RECURSIVE Texts(_)
\* the texts of at most n characters
Texts(n) ==
    IF n = 0 THEN {<< >>}
    ELSE Texts(n - 1) \cup {<<c>> \o t : c \in Chars, t \in {u \in Texts(n - 1) : Len(u) = n - 1}}

\* the file and the edit of the spec's example
ExampleFile == <<"a", "\n", "b", "\n", "c", "\n">>
ExampleNew == <<"B">>

Files == Texts(MaxFileLen) \cup {ExampleFile}
NewContents == Texts(MaxNewLen) \cup {ExampleNew}
\* start_line and end_line: from below the first line to beyond the last
LineNumbers == 0..(MaxFileLen + 2)

RECURSIVE Split(_)
\* strings.Split(s, "\n")
Split(s) ==
    IF s = << >> THEN << << >> >>
    ELSE LET rest == Split(Tail(s))
         IN  IF Head(s) = "\n" THEN << << >> >> \o rest
             ELSE << <<Head(s)>> \o Head(rest) >> \o Tail(rest)

RECURSIVE Join(_)
\* strings.Join(lines, "\n")
Join(lines) ==
    IF lines = << >> THEN << >>
    ELSE IF Len(lines) = 1 THEN lines[1]
    ELSE lines[1] \o <<"\n">> \o Join(Tail(lines))

\* the range check without the test for an inverted range
InvalidRange_NoOrder(start, end, n) ==
    start < 0 \/ start >= n \/ end < 0 \/ end >= n

\* manager.go:574: the range check, on 0-based start and end, n lines
InvalidRange(start, end, n) ==
    start < 0 \/ start >= n \/ end < 0 \/ end >= n \/ start > end

\* manager.go:579-581, on 0-based start and end:
\*   result := append(lines[:start], newLines...)
\*   result = append(result, lines[end+1:]...)
\* lines comes from strings.Split, so cap(lines) = len(lines): the first
\* append writes into the array of lines when start + len(newLines) fits in
\* it, and lines[end+1:] is read from that array afterwards
ReplaceLines(lines, start, end, newLines) ==
    LET n == Len(lines)
        k == Len(newLines)
        array == IF start + k <= n
                 THEN [i \in 1..n |-> IF i > start /\ i <= start + k
                                      THEN newLines[i - start] ELSE lines[i]]
                 ELSE lines
    IN  SubSeq(lines, 1, start) \o newLines \o SubSeq(array, end + 2, n)

\* EditFileTool.Execute with start_line given: the error and the content of
\* the file afterwards
EditFileExecute(content, startLine, endLineParam, newContentParam) ==
    LET lines == Split(content)
        endLine == IF endLineParam.ok THEN endLineParam.value ELSE startLine
        start == startLine - 1
        end == endLine - 1
    IN  IF ~newContentParam.ok
        THEN [err |-> "new_content parameter is required", content |-> content]
        ELSE IF InvalidRange(start, end, Len(lines))
        THEN [err |-> "invalid line range", content |-> content]
        ELSE [err |-> nil,
              content |-> Join(ReplaceLines(lines, start, end,
                                            Split(newContentParam.value)))]

\* the files edit_file is tried on
InitEdit ==
    /\ TurnAtStart
    /\ SessionsAtStart
    /\ MoreAtStart
    /\ ProviderAtStart
    /\ SearchAtStart
    /\ file \in Files
    /\ edit = NoEdit

\* the model calls edit_file with start_line
EditFile ==
    /\ edit = NoEdit
    /\ \E startLine \in LineNumbers,
          endLineParam \in {Given(n) : n \in LineNumbers} \cup {NotGiven(0)},
          newContentParam \in {Given(t) : t \in NewContents} \cup {NotGiven(<< >>)} :
          LET r == EditFileExecute(file, startLine, endLineParam, newContentParam)
          IN  /\ file' = r.content
              /\ edit' = Edit(startLine,
                              IF endLineParam.ok THEN endLineParam.value ELSE startLine,
                              newContentParam, r.err, file)
    /\ UNCHANGED <<turnVars, sessVars, provVars, searchVars, moreVars>>

NextEdit == EditFile

SpecEdit == InitEdit /\ [][NextEdit]_vars

----------------------------------------------------------------------------
(* SearchTool.Execute: the walk and the cap on reported files *)

\* most entries filepath.Walk visits
MaxTree == 4
\* largest max_results tried
MaxM == 2

\* manager.go:385: the cap when max_results is absent or 0
DefaultMaxResults == 50

\* what the walk callback meets: an entry it is handed an error for, a
\* directory, a file the pattern or isTextFile rejects, a file that cannot
\* be read, a text file without a matching line, a text file with one
EntryKinds == {"error", "dir", "filtered", "unreadable", "no match", "match"}

RECURSIVE Trees(_)
\* the walks of at most n entries
Trees(n) ==
    IF n = 0 THEN {<< >>}
    ELSE Trees(n - 1) \cup {Append(t, e) : e \in EntryKinds,
                                          t \in {u \in Trees(n - 1) : Len(u) = n - 1}}

\* the callback goes on reporting one file beyond the cap
CapReached_Late(foundCount, maxResults) == foundCount > maxResults

\* manager.go:413: foundCount >= int(maxResults)
CapReached(foundCount, maxResults) == foundCount >= maxResults

RECURSIVE Walk(_, _, _, _)
\* filepath.Walk with the callback of manager.go:412-492, from entry k on:
\* found holds the positions of the files reported so far
Walk(entries, k, maxResults, found) ==
    IF k > Len(entries) THEN found
    ELSE IF entries[k] = "error" \/ CapReached(Len(found), maxResults)
    THEN Walk(entries, k + 1, maxResults, found)
    ELSE IF entries[k] = "match"
    THEN Walk(entries, k + 1, maxResults, Append(found, k))
    ELSE Walk(entries, k + 1, maxResults, found)

\* SearchTool.Execute: the files reported and the closing line
SearchExecute(entries, maxResultsParam) ==
    LET given == IF maxResultsParam.ok THEN maxResultsParam.value ELSE 0
        maxResults == IF given = 0 THEN DefaultMaxResults ELSE given
        found == Walk(entries, 1, maxResults, << >>)
    IN  Search(maxResultsParam, found,
               Len(found) # 0 /\ Len(found) >= maxResults)

\* the trees search is tried on
InitSearch ==
    /\ TurnAtStart
    /\ SessionsAtStart
    /\ MoreAtStart
    /\ ProviderAtStart
    /\ EditAtStart
    /\ tree \in Trees(MaxTree)
    /\ search = NoSearch

\* the model calls search
SearchFiles ==
    /\ search = NoSearch
    /\ \E maxResultsParam \in {Given(m) : m \in 0..MaxM} \cup {NotGiven(0)} :
          search' = SearchExecute(tree, maxResultsParam)
    /\ UNCHANGED <<tree, turnVars, sessVars, provVars, editVars, moreVars>>

NextSearch == SearchFiles

SpecSearch == InitSearch /\ [][NextSearch]_vars

----------------------------------------------------------------------------
(* Manager.RegisterTool and Manager.GetTool *)

\* RegisterTool calls made in one run
MaxRegs == 4

\* a Tool is what its Name() returns and which implementation it is

\* a name already taken keeps its tool
RegisterTool_KeepsFirst(reg, tool) ==
    IF reg[tool.name] = NoTool THEN [reg EXCEPT ![tool.name] = tool.impl] ELSE reg

\* Manager.RegisterTool: m.tools[tool.Name()] = tool
RegisterTool(reg, tool) == [reg EXCEPT ![tool.name] = tool.impl]

\* Manager.GetTool: tool, exists := m.tools[name]
GetTool(reg, name) == [tool |-> reg[name], exists |-> reg[name] # NoTool]

\* a caller registers a tool
RegisterToolCall ==
    /\ Len(regLog) < MaxRegs
    /\ \E name \in RegNames, impl \in Impls :
          /\ registry' = RegisterTool(registry, [name |-> name, impl |-> impl])
          /\ regLog' = Append(regLog, [name |-> name, impl |-> impl])
    /\ UNCHANGED <<turnVars, sessVars, provVars, editVars, searchVars,
                   ctxVars, schemaVars, copyVars>>

SpecReg == Init /\ [][RegisterToolCall]_vars

----------------------------------------------------------------------------
(* The context manager: the inspection tools, UpdateCurrentProject and its
   autosave goroutine, RecordAction and GetCurrentProjectPath *)

\* autosave goroutines alive at once
MaxSaves == 2

\* what os.Getwd returns
Dirs == {"/p", "/q"}

InspectionTools ==
    {"get_current_directory", "get_system_info", "get_project_info",
     "get_working_context", "get_smart_context"}

\* ContextManager.UpdateCurrentProject, up to the go statement: the project
\* is replaced by a fresh ProjectContext with an empty RecentFiles
UpdateCurrentProject(projectPath) == ProjectContext(projectPath, << >>)

\* Execute of an inspection tool in directory dir. Only get_smart_context
\* holds the context manager: it calls UpdateCurrentProject, which takes the
\* write lock, replaces the project and starts the autosave goroutine.
Inspect(tool, dir) ==
    /\ ctxOp' = tool
    /\ IF tool = "get_smart_context"
       THEN /\ mutex = Unlocked
            /\ saving + mutex.readers < MaxSaves
            /\ currentProject' = UpdateCurrentProject(dir)
            /\ saving' = saving + 1
       ELSE UNCHANGED <<currentProject, saving>>
    /\ UNCHANGED <<contextFile, mutex, added>>

\* the assistant runs an inspection tool
InspectionToolRuns ==
    /\ pc = "idle"
    /\ ~mutex.writer
    /\ \E tool \in InspectionTools, dir \in Dirs : Inspect(tool, dir)
    /\ UNCHANGED <<turnVars, sessVars, provVars, editVars, searchVars,
                   regVars, schemaVars, copyVars>>

\* SaveContext in the autosave goroutine: cm.mutex.RLock()
AutosaveLocks ==
    /\ pc = "idle"
    /\ saving > 0
    /\ ~mutex.writer
    /\ saving' = saving - 1
    /\ mutex' = [mutex EXCEPT !.readers = @ + 1]
    /\ UNCHANGED <<currentProject, contextFile, ctxOp, added>>
    /\ UNCHANGED <<turnVars, sessVars, provVars, editVars, searchVars,
                   regVars, schemaVars, copyVars>>

\* SaveContext in the autosave goroutine: the file is written from
\* cm.currentProject and the deferred RUnlock runs
AutosaveWrites ==
    /\ pc = "idle"
    /\ mutex.readers > 0
    /\ contextFile' = ContextFile(currentProject)
    /\ mutex' = [mutex EXCEPT !.readers = @ - 1]
    /\ UNCHANGED <<currentProject, saving, ctxOp, added>>
    /\ UNCHANGED <<turnVars, sessVars, provVars, editVars, searchVars,
                   regVars, schemaVars, copyVars>>

\* RecordAction: cm.mutex.Lock()
RecordActionLocks ==
    /\ pc = "idle"
    /\ mutex = Unlocked
    /\ mutex' = [mutex EXCEPT !.writer = TRUE]
    /\ ctxOp' = "RecordAction"
    /\ UNCHANGED <<currentProject, contextFile, saving, added>>
    /\ UNCHANGED <<turnVars, sessVars, provVars, editVars, searchVars,
                   regVars, schemaVars, copyVars>>

\* GetCurrentProjectPath: cm.mutex.RLock(), which waits while a writer holds
\* the mutex, the read, and the deferred RUnlock. Called from RecordAction
\* (part_000:214, 225) it is followed by the rest of RecordAction, which ends
\* with the deferred Unlock; the work history RecordAction writes is not
\* part of this model.
GetCurrentProjectPathCall ==
    /\ pc = "idle"
    /\ ~mutex.writer
    /\ IF ctxOp = "RecordAction" /\ mutex.writer
       THEN /\ mutex' = [mutex EXCEPT !.writer = FALSE]
            /\ ctxOp' = "RecordAction returned"
       ELSE /\ ctxOp' = "GetCurrentProjectPath"
            /\ UNCHANGED mutex
    /\ UNCHANGED <<currentProject, contextFile, saving, added>>
    /\ UNCHANGED <<turnVars, sessVars, provVars, editVars, searchVars,
                   regVars, schemaVars, copyVars>>

\* the process ends while the main goroutine is not inside the context
\* manager: "/exit" or "/quit", or end of input
ProcessExits ==
    /\ ~mutex.writer
    /\ \/ exitCommand
       \/ EndOfInput

NextCtx ==
    \/ InspectionToolRuns
    \/ AutosaveLocks
    \/ AutosaveWrites
    \/ RecordActionLocks
    \/ GetCurrentProjectPathCall
    \/ ProcessExits

SpecCtx == Init /\ [][NextCtx]_vars

----------------------------------------------------------------------------
(* The tool definitions' required parameters against what each Execute
   demands; a parameter supplied has the type its executor asserts *)

\* the tools NewManager registers
ToolNames ==
    {"read_file", "write_file", "edit_file", "list_files", "create_directory",
     "delete_file", "rename_file", "copy_file", "move_file", "file_info",
     "execute_command", "search", "replace_text",
     "get_current_directory", "get_system_info", "get_project_info",
     "get_working_context", "get_smart_context",
     "init_novel_project", "get_novel_context", "add_character",
     "add_plot_line", "get_chapter_context", "search_novel_history"}

\* getRequiredParameters: the "required" list of a tool's definition
getRequiredParameters(toolName) ==
    CASE toolName = "read_file" -> {"file_path"}
      [] toolName = "write_file" -> {"file_path", "content"}
      [] toolName = "search" -> {"query"}
      [] toolName = "execute_command" -> {"command"}
      [] toolName = "file_info" -> {"file_path"}
      [] toolName = "edit_file" -> {"file_path", "content"}
      [] toolName = "create_directory" -> {"directory_path"}
      [] toolName = "delete_file" -> {"file_path"}
      [] toolName = "copy_file" -> {"source_path", "destination_path"}
      [] toolName \in {"move_file", "rename_file"} -> {"old_path", "new_path"}
      [] toolName = "replace_text" -> {"file_path", "old_text", "new_text"}
      [] OTHER -> {}

\* the parameters an Execute demands one after the other, each with the
\* error "<name> is required" when it is missing
Demanded(toolName) ==
    CASE toolName = "read_file" -> <<"file_path">>
      [] toolName = "write_file" -> <<"file_path", "content">>
      [] toolName = "execute_command" -> <<"command">>
      [] toolName = "search" -> <<"query">>
      [] toolName = "edit_file" -> <<"file_path">>
      [] toolName = "create_directory" -> <<"path">>
      [] toolName = "delete_file" -> <<"path">>
      [] toolName = "rename_file" -> <<"old_path", "new_path">>
      [] toolName = "copy_file" -> <<"src_path", "dst_path">>
      [] toolName = "move_file" -> <<"src_path", "dst_path">>
      [] toolName = "file_info" -> <<"path">>
      [] toolName = "replace_text" -> <<"file_path", "pattern", "replacement">>
      [] toolName = "init_novel_project" -> <<"title">>
      [] toolName = "add_character" -> <<"name">>
      [] toolName = "add_plot_line" -> <<"name">>
      [] toolName = "get_chapter_context" -> <<"chapter">>
      [] toolName = "search_novel_history" -> <<"query">>
      [] OTHER -> << >>

\* the parameter names a call may carry
ParamNames(toolName) ==
    getRequiredParameters(toolName)
      \cup {Demanded(toolName)[i] : i \in DOMAIN Demanded(toolName)}
      \cup (IF toolName = "edit_file"
            THEN {"old_text", "new_text", "start_line", "new_content"} ELSE {})

\* the required-parameter validation of Execute on a call carrying the
\* parameters `supplied`: the error of the first demanded parameter that is
\* missing; edit_file then needs one of its two modes complete
RequiredParameterError(toolName, supplied) ==
    LET demanded == Demanded(toolName)
        missing == {i \in DOMAIN demanded : demanded[i] \notin supplied}
        first == CHOOSE i \in missing : \A j \in missing : i <= j
    IN  IF missing # {} THEN demanded[first] \o " is required"
        ELSE IF toolName # "edit_file" THEN nil
        ELSE IF "old_text" \in supplied
        THEN (IF "new_text" \in supplied THEN nil
              ELSE "new_text is required")
        ELSE IF "start_line" \in supplied
        THEN (IF "new_content" \in supplied THEN nil
              ELSE "new_content is required")
        ELSE "either old_text/new_text or start_line/end_line/new_content are required"

\* a call of a registered tool reaches its executor's validation
ValidateCall ==
    /\ \E toolName \in ToolNames :
         \E supplied \in SUBSET ParamNames(toolName) :
            probe' = Probe(toolName, supplied,
                           RequiredParameterError(toolName, supplied))
    /\ UNCHANGED <<turnVars, sessVars, provVars, editVars, searchVars,
                   regVars, ctxVars, copyVars>>

SpecSchema == Init /\ [][ValidateCall]_vars

----------------------------------------------------------------------------
(* CopyFileTool.Execute; a path names one file *)

\* CopyFileTool.Execute(src_path, dst_path) on the files `files`: os.Open of
\* the source, os.Create of the destination, which truncates an existing
\* file, then io.Copy of what the source holds at that moment
CopyFileExecute(files, srcPath, dstPath, creatable) ==
    LET created == [files EXCEPT ![dstPath] = Present("")]
        copied == [created EXCEPT ![dstPath] = Present(created[srcPath].content)]
    IN  IF ~files[srcPath].exists
        THEN [err |-> "failed to open source file", files |-> files]
        ELSE IF ~creatable
        THEN [err |-> "failed to create destination file", files |-> files]
        ELSE [err |-> nil, files |-> copied]

InitCopy ==
    /\ TurnAtStart
    /\ SessionsAtStart
    /\ ProviderAtStart
    /\ EditAtStart
    /\ SearchAtStart
    /\ RegistryAtStart
    /\ ContextAtStart
    /\ fs \in [Paths -> {Absent, Present(""), Present("x"), Present("y")}]
    /\ copy = NoCopy

\* the assistant calls copy_file
CopyFile ==
    /\ \E srcPath \in Paths, dstPath \in Paths, creatable \in BOOLEAN :
          LET r == CopyFileExecute(fs, srcPath, dstPath, creatable)
          IN  /\ fs' = r.files
              /\ copy' = Copy(srcPath, dstPath, r.err, fs)
    /\ UNCHANGED <<turnVars, sessVars, provVars, editVars, searchVars,
                   regVars, ctxVars, schemaVars>>

SpecCopy == InitCopy /\ [][CopyFile]_vars

----------------------------------------------------------------------------
(* ContextManager.AddRecentFile; a file path is the number of the file, files
   being numbered in the order they are first added *)

\* distinct files added in one run
MaxFiles == 12
\* calls that add a file added before
MaxReAdds == 2

\* part_000:199-200: the most entries RecentFiles keeps
MaxRecentFiles == 10

\* the loop of part_000:185-193: the first entry equal to x is cut out
RECURSIVE RemoveFirst(_, _)
RemoveFirst(s, x) ==
    IF s = << >> THEN << >>
    ELSE IF Head(s) = x THEN Tail(s)
    ELSE <<Head(s)>> \o RemoveFirst(Tail(s), x)

\* an entry already listed stays where it is
AddRecentFile_NoRemoval(project, filePath) ==
    LET prepended == <<filePath>> \o project.recentFiles
    IN  IF ~project.set THEN project
        ELSE [project EXCEPT !.recentFiles =
                 IF Len(prepended) > MaxRecentFiles
                 THEN SubSeq(prepended, 1, MaxRecentFiles) ELSE prepended]

\* ContextManager.AddRecentFile: nothing without a project; else the path is
\* removed where it stands, put in front, and the list cut to its cap
AddRecentFile(project, filePath) ==
    LET prepended == <<filePath>> \o RemoveFirst(project.recentFiles, filePath)
    IN  IF ~project.set THEN project
        ELSE [project EXCEPT !.recentFiles =
                 IF Len(prepended) > MaxRecentFiles
                 THEN SubSeq(prepended, 1, MaxRecentFiles) ELSE prepended]

\* a project just made current: UpdateCurrentProject left its list empty
InitRecent ==
    /\ TurnAtStart
    /\ SessionsAtStart
    /\ ProviderAtStart
    /\ EditAtStart
    /\ SearchAtStart
    /\ RegistryAtStart
    /\ CopyAtStart
    /\ currentProject \in {UpdateCurrentProject(dir) : dir \in Dirs}
    /\ contextFile = NoContextFile
    /\ mutex = Unlocked
    /\ saving = 0
    /\ ctxOp = NoTool
    /\ added = NoAdds

\* a caller adds a file: the next new one, or one added before
AddRecentFileCall ==
    /\ mutex = Unlocked
    /\ \E filePath \in 1..(added.introduced + 1) :
          /\ IF filePath > added.introduced
             THEN added.introduced < MaxFiles
             ELSE added.reAdds < MaxReAdds
          /\ currentProject' = AddRecentFile(currentProject, filePath)
          /\ added' = [last |-> filePath,
                       introduced |-> IF filePath > added.introduced
                                      THEN filePath ELSE added.introduced,
                       reAdds |-> IF filePath > added.introduced
                                  THEN added.reAdds ELSE added.reAdds + 1]
    /\ UNCHANGED <<contextFile, mutex, saving, ctxOp>>
    /\ UNCHANGED <<turnVars, sessVars, provVars, editVars, searchVars,
                   regVars, schemaVars, copyVars>>

SpecRecent == InitRecent /\ [][AddRecentFileCall]_vars

----------------------------------------------------------------------------
(* What the claims speak of *)

\* the messages the current/last turn appended
TurnMsgs == SubSeq(messages, turnBase + 1, Len(messages))

\* the tool-call list the provider returned in the current/last turn
TurnCalls ==
    IF Len(TurnMsgs) >= 2 /\ TurnMsgs[2].role = "assistant"
    THEN TurnMsgs[2].toolCalls ELSE NoCalls

IDsOf(calls) == [k \in 1..Len(calls) |-> calls[k].ID]

IsTool(m) == m.role = "tool"
IsAssistant(m) == m.role = "assistant"

\* the correlation identifiers of the turn's tool messages, in order
TurnToolIDs ==
    LET ts == SelectSeq(TurnMsgs, IsTool)
    IN  [k \in 1..Len(ts) |-> ts[k].toolCallID]

\* the tool results of the turn are in the session
ResultsAppended == execRounds = 1 /\ pc \in {"followup", "idle"}

\* the calls ExecuteTools' loop has gone through
Processed == IF pc = "exec" THEN SubSeq(toolCalls, 1, idx - 1) ELSE NoCalls

Unregistered(call) ==
    call.Function.name.isString /\ call.Function.name.str \notin tools

UndecodableArgs(call) ==
    /\ call.Function.arguments.kind = "string"
    /\ call.Function.arguments.text \notin {"{\"file_path\":\"a.txt\"}", "{}"}

\* results holds exactly one error result for the call, with the call's id,
\* and the call's tool did not run
ErrorResultFor(call) ==
    /\ Cardinality({k \in 1..Len(results) :
                       results[k].ToolCallID = call.ID}) = 1
    /\ \A k \in 1..Len(results) :
          results[k].ToolCallID = call.ID => results[k].Error # nil
    /\ \A k \in 1..Len(executed) : executed[k] # call.ID

----------------------------------------------------------------------------
(* Claims *)

\* C1: once a turn's tool results are appended, the turn's tool messages carry
\* exactly the correlation identifiers of the provider's tool calls, one
\* message per call, in the order received (no call is dropped).
C1_EveryCallAnswered ==
    ResultsAppended => TurnToolIDs = IDsOf(TurnCalls)

\* C2: every call ExecuteTools has gone through whose function name is not
\* registered has exactly one result, with a non-nil error and the call's
\* id, and no tool ran for it.
C2_UnknownToolErrorResult ==
    \A k \in 1..Len(Processed) :
       Unregistered(Processed[k]) => ErrorResultFor(Processed[k])

\* C3: every call ExecuteTools has gone through whose arguments are a string
\* that fails JSON decoding has an error result with the call's id, its
\* tool did not run, and the loop goes on to the calls after it.
C3_DecodeFailureErrorResult ==
    /\ \A k \in 1..Len(Processed) :
          UndecodableArgs(Processed[k]) => ErrorResultFor(Processed[k])
    /\ (pc = "exec" /\ idx <= Len(toolCalls)) => ENABLED ExecuteToolsStep

\* C4: every tool-role message of the transcript is preceded by an assistant
\* message, and its correlation identifier is the id of a tool call listed
\* in the nearest assistant message before it.
C4_ToolMessageMatchesCall ==
    \A p \in 1..Len(messages) :
       IsTool(messages[p]) =>
          /\ \E q \in 1..(p - 1) : IsAssistant(messages[q])
          /\ LET q == CHOOSE q \in 1..(p - 1) :
                         /\ IsAssistant(messages[q])
                         /\ \A r \in (q + 1)..(p - 1) : ~IsAssistant(messages[r])
             IN  \E c \in 1..Len(messages[q].toolCalls) :
                    messages[q].toolCalls[c].ID = messages[p].toolCallID

\* C4 witness: a tool message of a second tool-calling turn, after the
\* first such turn ended with its final answer
C4_Witness ==
    \E p \in 1..Len(messages) :
       /\ IsTool(messages[p])
       /\ \E a, b \in 1..(p - 1) :
             /\ a < b
             /\ IsAssistant(messages[a]) /\ messages[a].toolCalls # NoCalls
             /\ IsAssistant(messages[b]) /\ messages[b].toolCalls = NoCalls

\* C5 as stated: when every follow-up attempt (1 + 2 retries) fails, the error
\* names 2 retries and the turn appended no assistant message at all.
C5_NoAssistantMessageAtAll ==
    (pc = "idle" /\ followUps = <<"err", "err", "err">>) =>
       /\ outcome.status = "AI follow-up request failed"
       /\ outcome.retries = 2
       /\ \A k \in 1..Len(TurnMsgs) : ~IsAssistant(TurnMsgs[k])

\* C5 amended: when every follow-up attempt (1 + 2 retries) fails, the error
\* names 2 retries and no final-answer assistant message is appended: the
\* turn's only assistant message is the one carrying the tool-call list,
\* appended before the tools ran, and the tool messages are the last ones.
C5_NoFinalAnswerAppended ==
    (pc = "idle" /\ followUps = <<"err", "err", "err">>) =>
       /\ outcome.status = "AI follow-up request failed"
       /\ outcome.retries = 2
       /\ \A k \in 1..Len(TurnMsgs) :
             IsAssistant(TurnMsgs[k]) => (k = 2 /\ TurnMsgs[k].toolCalls # NoCalls)
       /\ IsAssistant(TurnMsgs[2])
       /\ \A k \in 3..Len(TurnMsgs) : IsTool(TurnMsgs[k])

\* C5 witness: a turn whose three follow-up attempts all failed, after a tool ran
C5_Witness ==
    /\ pc = "idle"
    /\ followUps = <<"err", "err", "err">>
    /\ Len(executed) > 0

\* C6: at most 3 follow-up attempts are made, none after a success; the wait
\* before retry k is k seconds, and the last failed attempt is followed by no
\* wait.
C6_RetryBackoff ==
    /\ Len(followUps) <= 3
    /\ \A k \in 1..(Len(followUps) - 1) : followUps[k] = "err"
    /\ \A k \in 1..Len(sleeps) : k <= 2 /\ sleeps[k] = k
    /\ pc = "followup" => Len(sleeps) = Len(followUps)
    /\ (pc = "idle" /\ followUps # << >>) => Len(sleeps) = Len(followUps) - 1

\* C6 witness: the third attempt has failed: two waits, of 1 s and 2 s
C6_Witness ==
    /\ pc = "idle"
    /\ followUps = <<"err", "err", "err">>
    /\ sleeps = <<1, 2>>

\* C7: when the initial provider call fails the turn is over with an error:
\* one provider call, no tool executed, and the turn appended its user
\* message only.
C7_InitialFailureIsFatal ==
    initial = "err" =>
       /\ pc = "idle"
       /\ outcome.status = "AI request failed"
       /\ chatCalls = 1
       /\ execRounds = 0
       /\ executed = << >>
       /\ Len(TurnMsgs) = 1
       /\ TurnMsgs[1].role = "user"

\* C7 witness: an initial call failed in a session that already holds a
\* tool-calling turn
C7_Witness ==
    /\ initial = "err"
    /\ \E k \in 1..Len(messages) : IsTool(messages[k])

\* C8: a turn makes at most 4 provider calls (1 initial, at most 3 follow-up
\* attempts) and at most one round of tool execution, and every turn under
\* way ends, with a final answer or with a reported error.
C8_TurnTerminates ==
    /\ [](/\ chatCalls <= 4
          /\ Len(followUps) <= 3
          /\ chatCalls = (IF initial = "none" THEN 0 ELSE 1) + Len(followUps)
          /\ execRounds <= 1)
    /\ [](pc # "idle" =>
            <>(/\ pc = "idle"
               /\ outcome.status \in {"answer", "AI request failed",
                                      "AI follow-up request failed"}))

\* C8 witness: a turn that ended with its answer on the 4th provider call
C8_Witness ==
    /\ pc = "idle"
    /\ chatCalls = 4
    /\ execRounds = 1
    /\ outcome.status = "answer"

PositionIn(calls, id) == CHOOSE k \in 1..Len(calls) : calls[k].ID = id

\* C9: the tools that ran in a turn ran for calls of the turn's list, each at
\* most once and in the order of the list, in one round; once a follow-up
\* attempt has been made no tool runs again.
C9_ToolsRunOnceInOrder ==
    /\ \A k \in 1..Len(executed) :
          \E c \in 1..Len(TurnCalls) : TurnCalls[c].ID = executed[k]
    /\ \A a, b \in 1..Len(executed) :
          a < b => PositionIn(TurnCalls, executed[a]) < PositionIn(TurnCalls, executed[b])
    /\ execRounds <= 1
    /\ followUps # << >> => pc # "exec"

\* C9 witness: two tools ran and the follow-up call was retried
C9_Witness ==
    /\ Len(executed) = 2
    /\ Len(followUps) >= 2

IsSystem(m) == m.role = "system"

\* C10: applied once, addSystemMessage yields a list headed by a system
\* message: the list itself when it already was, else the list behind one
\* added system message; applied to that result it changes nothing, so one
\* system message is added at most and it stands at position zero.
C10_SystemPrependIdempotent ==
    pc \in {"sys1", "sys2"} =>
       /\ request # << >>
       /\ IsSystem(request[1])
       /\ IF messages # << >> /\ IsSystem(messages[1])
          THEN request = messages
          ELSE request = <<systemMessage>> \o messages
       /\ Len(SelectSeq(request, IsSystem)) =
             Len(SelectSeq(messages, IsSystem))
             + (IF messages # << >> /\ IsSystem(messages[1]) THEN 0 ELSE 1)

\* C10 witness: the second application, on a list that got the message added
C10_Witness ==
    /\ pc = "sys2"
    /\ Len(messages) >= 2
    /\ ~IsSystem(messages[1])
    /\ Len(request) = Len(messages) + 1

\* s is an initial part of t, message for message
IsPrefix(s, t) ==
    /\ Len(s) <= Len(t)
    /\ \A k \in 1..Len(s) : t[k] = s[k]

\* C11: the messages of the session are append-only during a run: after N
\* appends the session holds exactly N messages, and no step changes or
\* removes a message that is already there.
C11_MessagesAppendOnly ==
    /\ [](Len(messages) = appendCount)
    /\ [][IsPrefix(messages, messages')]_vars

\* a turn with tool calls has appended all its messages and returned
C11_Witness ==
    /\ pc = "idle"
    /\ outcome = Answer
    /\ execRounds = 1
    /\ appendCount >= 4

\* C12: updated_at advances with every append to the session, the append
\* of the assistant message carrying the tool-call list included: it is
\* always the time of the latest append.
C12_UpdatedAtFollowsEveryAppend == updatedAt = appendCount

\* C13: on every way out of the program (end of input, /exit, /quit) the
\* current session is saved after its last appended message: once the
\* program has exited, the session's file holds the session's messages.
C13_SavedOnExit == pc = "exited" => store[current] = File(messages)

\* C14: a session is saved on switch-away: whenever the current session
\* changes (/switchsession, /new), the file of the session that was current
\* holds its messages.
C14_SavedOnSwitchAway ==
    [][current' # current => store'[current] = File(messages)]_vars

\* the stored sessions other than s whose ids begin like the id of s
SameShortID(st, s) == {t \in StoredIDs(st) \ {s} : ShortID(t) = ShortID(s)}

\* C15: /deletesession given the id of the current session (or any id the
\* lookup resolves to the current session) fails and leaves the session
\* files, the current session and its messages as they were; no delete
\* command ever removes or changes the file of the current session.
C15_CurrentSessionNotDeleted ==
    [][cmd'.kind = "delete" =>
         /\ current' = current
         /\ store'[current] = store[current]
         /\ (cmd'.arg = current \/ cmd'.target = current) =>
               /\ cmd'.err # nil
               /\ store' = store
               /\ messages' = messages]_vars

\* /deletesession with the full id of the stored current session was refused
C15_Witness ==
    /\ cmd.kind = "delete"
    /\ cmd.arg = current
    /\ cmd.err = "in use"
    /\ store[current].saved
    /\ \E t \in StoredIDs(store) : t # current

\* C16 as stated: for every stored session, /switchsession with the first
\* eight characters of its id (or with its full id) makes that session the
\* current one.
C16_ShortIDResolves ==
    [][cmd'.kind = "switch" =>
         \A s \in StoredIDs(store) :
             cmd'.arg \in {s, ShortID(s)} => cmd'.err = nil /\ current' = s]_vars

\* C16 amended: for every stored session, /switchsession with its full id,
\* or with the first eight characters of its id when no other stored
\* session's id begins with them, makes that session the current one, with
\* the messages of its file; a short id several stored sessions share makes
\* one of those the current one.
C16_UniqueShortIDResolves ==
    [][cmd'.kind = "switch" =>
         \A s \in StoredIDs(store) :
             /\ (cmd'.arg = s \/ (cmd'.arg = ShortID(s) /\ SameShortID(store, s) = {}))
                  => /\ cmd'.err = nil
                     /\ current' = s
                     /\ messages' = store'[s].messages
             /\ cmd'.arg = ShortID(s)
                  => /\ cmd'.err = nil
                     /\ current' \in {s} \cup SameShortID(store, s)]_vars

\* /switchsession with a short id no other stored session shares left a
\* session with messages for an empty one
C16_Witness ==
    /\ cmd.kind = "switch"
    /\ cmd.err = nil
    /\ cmd.arg = ShortID(current)
    /\ SameShortID(store, current) = {}
    /\ messages = << >>
    /\ \E t \in StoredIDs(store) \ {current} : store[t].messages # << >>

\* C17: switch_provider fails when no credential is configured for the
\* requested provider; a failed switch leaves the backend and the recorded
\* provider as they were, a successful switch changes both to the requested
\* provider.
C17_SwitchProviderAtomic ==
    sw.requested # "" =>
        /\ models[sw.requested] # "key" => sw.err # nil
        /\ sw.err # nil => clientProvider = sw.provider /\ backend = sw.backend
        /\ sw.err = nil => clientProvider = sw.requested /\ backend = sw.requested

\* the lines of the file before the edit, as edit_file counts them
LinesBefore == Split(edit.before)

\* an edit_file call by line range was made
Edited == edit # NoEdit /\ edit.newContent.ok

\* C18: a line-range edit that succeeds leaves the file holding the lines
\* before start, then the new lines, then the original lines after end,
\* however many new lines there are.
C18_EditReplacesRange ==
    (Edited /\ edit.err = nil) =>
        file = Join(SubSeq(LinesBefore, 1, edit.start - 1)
                    \o Split(edit.newContent.value)
                    \o SubSeq(LinesBefore, edit.end + 1, Len(LinesBefore)))

\* C19: a line-range edit whose range is inverted (start > end) or out of
\* bounds (a line below 1 or beyond the last line of the file, the lines
\* counted as the pieces between newlines) fails with the range error and
\* leaves the file unchanged.
C19_InvalidRangeRejected ==
    (/\ Edited
     /\ \/ edit.start > edit.end
        \/ edit.start < 1 \/ edit.start > Len(LinesBefore)
        \/ edit.end < 1 \/ edit.end > Len(LinesBefore))
    => edit.err = "invalid line range" /\ file = edit.before

\* an inverted range inside the file was refused
C19_Witness ==
    /\ Edited
    /\ edit.start > edit.end
    /\ edit.end >= 1
    /\ edit.start <= Len(LinesBefore)
    /\ edit.err = "invalid line range"
    /\ file = edit.before
    /\ file # << >>

\* the entries of the tree that are text files with a matching line
Matching == {k \in DOMAIN tree : tree[k] = "match"}

\* C20: for every tree and every max_results m >= 1, search reports at
\* most m file entries, each a different matching file; when more than m
\* files match it reports exactly m and says the results were limited.
C20_SearchCap ==
    (search # NoSearch /\ search.maxResults.ok /\ search.maxResults.value >= 1) =>
        LET m == search.maxResults.value
            entries == search.entries
        IN  /\ Len(entries) <= m
            /\ \A i \in DOMAIN entries : entries[i] \in Matching
            /\ \A i, j \in DOMAIN entries : entries[i] = entries[j] => i = j
            /\ Cardinality(Matching) > m => Len(entries) = m /\ search.truncated

\* more files match than max_results allows, and the search was cut
C20_Witness ==
    /\ search # NoSearch
    /\ search.maxResults.ok
    /\ search.maxResults.value = 2
    /\ Cardinality(Matching) > 2
    /\ Len(search.entries) = 2
    /\ search.truncated

\* the positions of the RegisterTool calls made under a name
RegisteredAt(name) == {i \in DOMAIN regLog : regLog[i].name = name}

Max(S) == CHOOSE x \in S : \A y \in S : y <= x

\* C21: registration is last-registration-wins: lookup of a name returns
\* the tool registered last under it (and nothing for a name never
\* registered), so a later registration replaces the earlier one, changes
\* no other name's tool, and the registry holds one entry per name.
C21_LastRegistrationWins ==
    /\ \A name \in RegNames :
          LET found == GetTool(registry, name)
          IN  IF RegisteredAt(name) = {}
              THEN ~found.exists
              ELSE found.exists /\ found.tool = regLog[Max(RegisteredAt(name))].impl
    /\ Cardinality({name \in RegNames : GetTool(registry, name).exists})
         = Cardinality({regLog[i].name : i \in DOMAIN regLog})

\* tool B was registered under a name tool A had, another name being taken
C21_Witness ==
    \E i, j \in DOMAIN regLog :
        /\ i < j
        /\ j = Len(regLog)
        /\ regLog[i].name = regLog[j].name
        /\ regLog[i].impl = "A"
        /\ regLog[j].impl = "B"
        /\ GetTool(registry, regLog[j].name).tool = "B"
        /\ \E k \in DOMAIN regLog : regLog[k].name # regLog[j].name

C23_InspectionToolsReadOnly ==
    [][(\E tool \in InspectionTools, dir \in Dirs : Inspect(tool, dir)) =>
          /\ currentProject' = currentProject
          /\ contextFile' = contextFile
          /\ saving' = saving]_vars

\* C24: a RecordAction call that holds the write lock is never stuck: the
\* read lock its GetCurrentProjectPath call asks for can be taken, so the
\* call goes on to its return and releases the write lock.
C24_RecordActionNotStuck ==
    (ctxOp = "RecordAction" /\ mutex.writer) => ENABLED GetCurrentProjectPathCall

\* C25: when the process has exited, every autosave that UpdateCurrentProject
\* started has written the context file: none is waiting for the lock and
\* none is between taking the lock and writing.
C25_AutosaveDoneBeforeExit ==
    pc = "exited" => (saving = 0 /\ mutex.readers = 0)

\* C26: for every registered tool, a call that supplies exactly the
\* parameters the tool's definition declares required passes the executor's
\* required-parameter validation.
C26_DeclaredRequiredSuffices ==
    (probe.tool \in ToolNames /\ probe.supplied = getRequiredParameters(probe.tool))
        => probe.err = nil

\* C27: after any sequence of /switch and /config set ai.provider commands
\* the provider recorded in the configuration, which the prompt shows, is
\* the provider whose backend the client uses.
C27_ConfigProviderIsBackend == cfgProvider = backend /\ cfgProvider = clientProvider

\* C28: when the initial provider call of a turn fails, the session is left
\* as the pre-turn messages followed by the turn's one user message: the
\* failing call finds the session so, and changes neither the messages (no
\* rollback, no error message) nor the session's time stamp, the current
\* session or the stored sessions.
C28_FailedTurnKeepsUserMessage ==
    /\ [][(pc = "chat" /\ initial' = "err") =>
            /\ messages' = messages
            /\ UNCHANGED <<updatedAt, current, store>>]_vars
    /\ []((pc = "chat" \/ initial = "err") =>
            /\ Len(messages) = turnBase + 1
            /\ messages[Len(messages)].role = "user"
            /\ messages[Len(messages)].content \in UserInputs)

\* C28 witness: the initial call failed in a session that held messages
\* before the turn
C28_Witness ==
    /\ initial = "err"
    /\ pc = "idle"
    /\ turnBase > 0
    /\ Len(messages) = turnBase + 1

\* C29: whenever copy_file reports success, the destination holds the
\* content the source had before the call and the source is unchanged, for
\* every pair of paths, the source's own path as destination included.
C29_CopyPreservesSource ==
    (copy # NoCopy /\ copy.err = nil) =>
        /\ fs[copy.dstPath] = Present(copy.before[copy.srcPath].content)
        /\ fs[copy.srcPath] = copy.before[copy.srcPath]

Min(a, b) == IF a < b THEN a ELSE b

\* where x stands in s, 0 when it does not
PlaceOf(s, x) ==
    IF \E i \in DOMAIN s : s[i] = x THEN CHOOSE i \in DOMAIN s : s[i] = x ELSE 0

\* C30: after any sequence of AddRecentFile calls on a project whose list
\* started empty, the list holds no file twice, holds at most 10 entries
\* (all the files added, while they are at most 10), and the file added
\* last stands first, the others keeping the order they had.
C30_RecentFilesBounded ==
    /\ [](LET recentFiles == currentProject.recentFiles
          IN  /\ \A i, j \in DOMAIN recentFiles :
                     recentFiles[i] = recentFiles[j] => i = j
              /\ Len(recentFiles) <= 10
              /\ Len(recentFiles) = Min(10, added.introduced)
              /\ added.last # 0 => recentFiles[1] = added.last)
    /\ [][\A i, j \in 2..Len(currentProject'.recentFiles) :
             i < j => PlaceOf(currentProject.recentFiles, currentProject'.recentFiles[i])
                        < PlaceOf(currentProject.recentFiles, currentProject'.recentFiles[j])]_vars

\* C30 witness: more than 10 files were added, and the last call added
\* again a file that the list still held, behind the first place
C30_Witness ==
    /\ added.introduced > 10
    /\ added.reAdds > 0
    /\ added.last < added.introduced - 1
    /\ added.last > added.introduced - 10
    /\ Len(currentProject.recentFiles) = 10
    /\ currentProject.recentFiles[1] = added.last

============================================================================
